---- MODULE Spec2Model ----
(***************************************************************************)
(* The jewellery grid of src/app.js: the item model, the image resolver,  *)
(* the grid controller (JewelleryGridManager) with its asynchronous       *)
(* initialisation and load-more operations, the per-image load/error      *)
(* callbacks and the buy (WhatsApp) handler.                               *)
(*                                                                         *)
(* JavaScript runs each handler to completion; an async function runs     *)
(* synchronously up to its first await and resumes in a later microtask.  *)
(* Every action below is one such run-to-completion segment.               *)
(*                                                                         *)
(* Text that ends up in the outbound message is a sequence of one-        *)
(* character strings, so that encodeURIComponent and its inverse are      *)
(* computed character by character.  Image locations are plain strings.   *)
(***************************************************************************)
EXTENDS Integers, Sequences, FiniteSets, TLC

(***************************************************************************)
(* Bounds of the model.                                                    *)
(***************************************************************************)
MaxTotal == 2
MaxInitial == 3
MaxBatch == 2
MaxObserved == 1
MaxInitCalls == 3

(***************************************************************************)
(* Helpers for JavaScript values.                                          *)
(***************************************************************************)
Min(a, b) == IF a <= b THEN a ELSE b

\* Array.from({length: len}, (_, i) => start + i); ToLength clamps a
\* negative length to 0.
ArrayFromRange(start, len) ==
    [i \in 1..(IF len < 0 THEN 0 ELSE len) |-> start + i - 1]

\* arr[index] of a 0-based JavaScript array; "undefined" when out of range.
ArrayGet(arr, index) ==
    IF index + 1 \in DOMAIN arr THEN arr[index + 1] ELSE "undefined"

\* a % b of JavaScript: the sign follows the dividend.
JsRem(a, b) == IF a >= 0 THEN a % b ELSE -((-a) % b)

\* x || y of JavaScript for strings: undefined and the empty string are falsy.
OrElse(x, y) == IF x = "undefined" \/ x = "" \/ x = <<>> THEN y ELSE x

DIGITS == <<"0","1","2","3","4","5","6","7","8","9">>

\* String(n) of a non-negative integer, as characters.
RECURSIVE NumberToChars(_)
NumberToChars(n) ==
    IF n < 10 THEN <<DIGITS[n + 1]>>
    ELSE NumberToChars(n \div 10) \o <<DIGITS[(n % 10) + 1]>>

DigitValue(c) == (CHOOSE i \in 1..10 : DIGITS[i] = c) - 1

\* parseInt(s) of a string of decimal digits.
RECURSIVE ParseInt(_)
ParseInt(s) ==
    IF Len(s) = 0 THEN 0
    ELSE 10 * ParseInt(SubSeq(s, 1, Len(s) - 1)) + DigitValue(s[Len(s)])

(***************************************************************************)
(* encodeURIComponent, and the decoding of a query parameter.  The text    *)
(* the program encodes is ASCII: every character outside the unreserved    *)
(* set becomes %XX with XX its code in upper-case hexadecimal.             *)
(***************************************************************************)
\* The printable ASCII characters, codes 32 to 126 in order (codes 34, 92 and
\* 96, which no text of the program contains, are spelled out).
ASCII ==
    <<" ","!","QUOTE","#","$","%","&","'","(",")","*","+",",","-",".","/","0","1","2","3","4",
      "5","6","7","8","9",":",";","<","=",">","?","@","A","B","C","D","E","F","G","H","I",
      "J","K","L","M","N","O","P","Q","R","S","T","U","V","W","X","Y","Z","[","BACKSLASH","]","^",
      "_","BACKTICK","a","b","c","d","e","f","g","h","i","j","k","l","m","n","o","p","q","r","s",
      "t","u","v","w","x","y","z","{","|","}","~">>

HEX == <<"0","1","2","3","4","5","6","7","8","9","A","B","C","D","E","F">>

CharCode(c) == IF c = "\n" THEN 10 ELSE 31 + (CHOOSE i \in 1..Len(ASCII) : ASCII[i] = c)

CodeChar(n) == IF n = 10 THEN "\n" ELSE ASCII[n - 31]

UNRESERVED ==
    {ASCII[i] : i \in (17..26) \cup (34..59) \cup (66..91)}
      \cup {"-", "_", ".", "!", "~", "*", "'", "(", ")"}

EncodeChar(c) ==
    IF c \in UNRESERVED THEN <<c>>
    ELSE <<"%", HEX[(CharCode(c) \div 16) + 1], HEX[(CharCode(c) % 16) + 1]>>

\* EncodeChar, tabulated.
ENCODED == [c \in {ASCII[i] : i \in 1..Len(ASCII)} \cup {"\n"} |-> EncodeChar(c)]

\* Character by character; the recursion halves the string to stay shallow.
RECURSIVE encodeURIComponent(_)
encodeURIComponent(s) ==
    IF Len(s) = 0 THEN <<>>
    ELSE IF Len(s) = 1 THEN ENCODED[s[1]]
    ELSE LET mid == Len(s) \div 2
         IN  encodeURIComponent(SubSeq(s, 1, mid))
               \o encodeURIComponent(SubSeq(s, mid + 1, Len(s)))

HexValue(c) == (CHOOSE i \in 1..16 : HEX[i] = c) - 1

\* Position k of s starts a token (a plain character or a %XX triple): in a
\* well-formed percent-encoded string a "%" is never one of the two
\* characters after a "%".
StartsToken(s, k) ==
    /\ ~(k > 1 /\ s[k - 1] = "%")
    /\ ~(k > 2 /\ s[k - 2] = "%")

\* The inverse of encodeURIComponent on well-formed input.
RECURSIVE PercentDecode(_)
PercentDecode(s) ==
    IF Len(s) = 0 THEN <<>>
    ELSE IF Len(s) <= 3
    THEN IF s[1] = "%" /\ Len(s) = 3
         THEN <<CodeChar(16 * HexValue(s[2]) + HexValue(s[3]))>>
         ELSE <<s[1]>> \o PercentDecode(Tail(s))
    ELSE LET half == Len(s) \div 2
             cut == CHOOSE k \in half..(half + 2) : StartsToken(s, k)
         IN  PercentDecode(SubSeq(s, 1, cut - 1))
               \o PercentDecode(SubSeq(s, cut, Len(s)))

\* s occurs in t as a contiguous substring.
Contains(t, s) ==
    \E i \in 0..(Len(t) - Len(s)) : SubSeq(t, i + 1, i + Len(s)) = s

(***************************************************************************)
(* Configuration (JEWELLERY_CONFIG) and the names table.                   *)
(***************************************************************************)
BASE_PATH == "images/"
IMAGE_PREFIX == "jewel-"

FALLBACK_IMAGES ==
    << "https://images.unsplash.com/photo-1535632066927-ab7c9ab60908?ixlib=rb-4.0.3&auto=format&fit=crop&w=600&q=80",
       "https://images.unsplash.com/photo-1594576722512-582d5577dc56?ixlib=rb-4.0.3&auto=format&fit=crop&w=600&q=80",
       "https://images.unsplash.com/photo-1599643478518-a784e5dc4c8f?ixlib=rb-4.0.3&auto=format&fit=crop&w=600&q=80",
       "https://images.unsplash.com/photo-1611591437281-460bfbe1220a?ixlib=rb-4.0.3&auto=format&fit=crop&w=600&q=80",
       "https://images.unsplash.com/photo-1596944090625-7d7c2e6ab234?ixlib=rb-4.0.3&auto=format&fit=crop&w=600&q=80" >>

\* The configuration the repository ships.
JEWELLERY_CONFIG == [TOTAL_IMAGES |-> 36, INITIAL_LOAD |-> 8, BATCH_SIZE |-> 8]

\* Other choices of the three numeric constants.
SmallConfigs ==
    [TOTAL_IMAGES : 1..MaxTotal, INITIAL_LOAD : 1..MaxInitial, BATCH_SIZE : 1..MaxBatch]

JEWELLERY ==
    <<"J","e","w","e","l","l","e","r","y">>

\* 36 entries, all the same name.
JEWELLERY_NAMES == [i \in 1..36 |-> JEWELLERY]

NAME_PREFIX ==
    <<"J","e","w","e","l","l","e","r","y"," ","I","t","e","m"," ">>

NETLIFY_PREFIX ==
    <<"h","t","t","p","s",":","/","/","s","i","s","t","e","r","-","s","p","a","r","k","l",
      "e","s",".","n","e","t","l","i","f","y",".","a","p","p","/","i","m","a","g","e","s",
      "/","j","e","w","e","l","-">>

JPG ==
    <<".","j","p","g">>

MSG_HEAD ==
    <<"H","i"," ","S","i","s","t","e","r","s"," ","S","p","a","r","k","l","e","s","!"," ",
      "\n","\n","I","'","m"," ","i","n","t","e","r","e","s","t","e","d"," ","i","n"," ","b",
      "u","y","i","n","g"," ","t","h","i","s"," ","j","e","w","e","l","l","e","r","y"," ",
      "f","r","o","m"," ","y","o","u","r"," ","e","x","h","i","b","i","t","i","o","n",":",
      "\n","\n"," ","*">>

MSG_IMAGE ==
    <<"*","\n"," ","*","I","m","a","g","e",":","*"," ">>

MSG_ITEM ==
    <<"\n"," ","*","I","t","e","m"," ","#">>

MSG_TAIL ==
    <<"*","\n","\n","P","l","e","a","s","e"," ","s","h","a","r","e"," ","p","r","i","c","e",
      " ","a","n","d"," ","a","v","a","i","l","a","b","i","l","i","t","y","."," ","T","h",
      "a","n","k"," ","y","o","u","!">>

WA_PREFIX ==
    <<"h","t","t","p","s",":","/","/","w","a",".","m","e","/","9","1","7","4","3","6","0",
      "5","3","0","0","4","?","t","e","x","t","=">>

VIEW_MORE_LABEL == "View More Jewellery"

\* The label the host page gives the button; the page is not part of src/.
HostButtonLabel == "View More Jewellery"
LOADING_LABEL == "Loading..."

(***************************************************************************)
(* State.                                                                  *)
(***************************************************************************)
VARIABLES
    config,          \* the three numeric constants of JEWELLERY_CONFIG
    host,            \* which elements the host page provides
    loadedItems,     \* this.loadedItems, a Set of numbers
    isInitializing,  \* this.isInitializing
    initPc,          \* where init() is suspended: "idle", "loadInitialItems", "init"
    initThrown,      \* a rejection travelling up the awaits of init()
    state,           \* Idle, Initializing, Ready, Error
    initCalls,       \* calls of init() so far
    listeners,       \* click listeners registered on the button and on the grid
    grid,            \* children of the grid element, in document order
    loadingHidden,   \* loadingIndicator has class "hidden"
    viewMoreHidden,  \* viewMoreContainer has class "hidden"
    btnDisabled,     \* viewMoreBtn.disabled
    btnLabel,        \* viewMoreBtn.textContent
    morePending,     \* activations of loadMoreItems() suspended at their await
    lastCall,        \* the latest call that loads a batch or declines to: the method,
                     \* the identifiers it asked for, whether it passed its guard
    modal            \* the confirmation surface and document.body.style.overflow

vars ==
    << config, host, loadedItems, isInitializing, initPc, initThrown, state,
       initCalls, listeners, grid, loadingHidden, viewMoreHidden, btnDisabled,
       btnLabel, morePending, lastCall, modal >>

\* A host page with every element the code looks up.
FullHost ==
    [ jewelleryGrid |-> TRUE, loadingIndicator |-> TRUE, viewMoreContainer |-> TRUE,
      viewMoreBtn |-> TRUE, buyNowModal |-> TRUE, modalItem |-> TRUE,
      modalImage |-> TRUE, modalWhatsappLink |-> TRUE ]

(***************************************************************************)
(* JewelleryImageManager.                                                  *)
(***************************************************************************)
\* getFallbackImage without the "- 1".
getFallbackImage_NoMinusOne(index) ==
    ArrayGet(FALLBACK_IMAGES, JsRem(index, Len(FALLBACK_IMAGES)))

getFallbackImage(index) ==
    LET fallbackIndex == JsRem(index - 1, Len(FALLBACK_IMAGES))
    IN  ArrayGet(FALLBACK_IMAGES, fallbackIndex)

getImageSrc(index) ==
    LET localPath == BASE_PATH \o IMAGE_PREFIX \o ToString(index) \o ".jpg"
    IN  IF index <= config.TOTAL_IMAGES THEN localPath ELSE getFallbackImage(index)

(***************************************************************************)
(* JewelleryItem.                                                          *)
(***************************************************************************)
\* getName whose generated label leaves the id out.
getName_NoId(id) == OrElse(ArrayGet(JEWELLERY_NAMES, id - 1), NAME_PREFIX)

getName(id) ==
    OrElse(ArrayGet(JEWELLERY_NAMES, id - 1), NAME_PREFIX \o NumberToChars(id))

JewelleryItem(id) ==
    [id |-> id, name |-> getName(id), imageSrc |-> getImageSrc(id)]

(***************************************************************************)
(* JewelleryGridManager: pure parts.                                       *)
(***************************************************************************)
\* The card element: its dataset.itemId, the attributes of its button
\* (data-item-id, data-item-name, data-image-src) and its image (data-src,
\* src, whether a load is in flight, opacity, and how often onerror has
\* assigned the fallback: 0, 1, or 2 for twice or more).
createJewelleryCard(jewellery) ==
    [ kind |-> "card",
      itemId |-> NumberToChars(jewellery.id),
      itemName |-> jewellery.name,
      dataSrc |-> jewellery.imageSrc,
      src |-> "",
      load |-> "none",
      opacity |-> 0,
      fallbacks |-> 0 ]

\* What showErrorFallback() puts in place of the grid's children.
Placeholder == [kind |-> "placeholder"]

\* showErrorFallback that adds the placeholder after the grid's children.
showErrorFallback_Append(g) == IF host.jewelleryGrid THEN g \o <<Placeholder>> ELSE g

showErrorFallback(g) == IF host.jewelleryGrid THEN <<Placeholder>> ELSE g

\* Every img[data-src] of the grid gets src = data-src, which starts a load,
\* and the onload/onerror handlers.
setupImageObservers(g) ==
    [ i \in DOMAIN g |->
        IF g[i].kind = "card"
        THEN [g[i] EXCEPT !.src = g[i].dataSrc, !.load = "loading"]
        ELSE g[i] ]

\* BatchLoop without the loadedItems.has(itemId) test.
RECURSIVE BatchLoop_NoHas(_, _, _)
BatchLoop_NoHas(itemIds, loaded, fragment) ==
    IF Len(itemIds) = 0 THEN [loadedItems |-> loaded, fragment |-> fragment]
    ELSE BatchLoop_NoHas(Tail(itemIds), loaded \cup {Head(itemIds)},
                         Append(fragment, createJewelleryCard(JewelleryItem(Head(itemIds)))))

\* The loop of loadItemsBatch: the cards of the fragment and the new set.
RECURSIVE BatchLoop(_, _, _)
BatchLoop(itemIds, loaded, fragment) ==
    IF Len(itemIds) = 0 THEN [loadedItems |-> loaded, fragment |-> fragment]
    ELSE LET itemId == Head(itemIds) IN
         IF itemId \in loaded
         THEN BatchLoop(Tail(itemIds), loaded, fragment)
         ELSE BatchLoop(Tail(itemIds), loaded \cup {itemId},
                        Append(fragment, createJewelleryCard(JewelleryItem(itemId))))

\* loadItemsBatch that starts from an empty set instead of this.loadedItems.
loadItemsBatch_FreshSet(itemIds) ==
    LET r == BatchLoop(itemIds, {}, <<>>)
    IN  [loadedItems |-> r.loadedItems, grid |-> setupImageObservers(grid \o r.fragment)]

\* loadItemsBatch that puts the fragment before the grid's children.
loadItemsBatch_Prepend(itemIds) ==
    LET r == BatchLoop(itemIds, loadedItems, <<>>)
    IN  [loadedItems |-> r.loadedItems, grid |-> setupImageObservers(r.fragment \o grid)]

\* loadItemsBatch(itemIds): the new loadedItems and the new grid children.
loadItemsBatch(itemIds) ==
    LET r == BatchLoop(itemIds, loadedItems, <<>>)
    IN  [loadedItems |-> r.loadedItems, grid |-> setupImageObservers(grid \o r.fragment)]

\* showLoading(show): the new value of loadingHidden.
showLoading(show) == IF host.loadingIndicator THEN ~show ELSE loadingHidden

\* updateViewMoreButton with <= for <.
updateViewMoreButton_OffByOne ==
    IF ~host.viewMoreContainer THEN viewMoreHidden
    ELSE ~(Cardinality(loadedItems) <= config.TOTAL_IMAGES)

\* updateViewMoreButton(): the new value of viewMoreHidden.
updateViewMoreButton ==
    IF ~host.viewMoreContainer THEN viewMoreHidden
    ELSE LET hasMoreItems == Cardinality(loadedItems) < config.TOTAL_IMAGES
         IN  ~hasMoreItems

\* InitialItems without the clamp to TOTAL_IMAGES.
InitialItems_NoMin == ArrayFromRange(1, config.INITIAL_LOAD)

\* The identifiers loadInitialItems() asks for.
InitialItems ==
    LET endIndex == Min(config.INITIAL_LOAD, config.TOTAL_IMAGES)
    IN  ArrayFromRange(1, endIndex)

\* NewItems without the clamp to TOTAL_IMAGES.
NewItems_NoMin ==
    ArrayFromRange(Cardinality(loadedItems) + 1, config.BATCH_SIZE)

\* NewItems that starts at size instead of size + 1.
NewItems_StartAtSize ==
    LET startIndex == Cardinality(loadedItems)
        endIndex == Min(Cardinality(loadedItems) + config.BATCH_SIZE, config.TOTAL_IMAGES)
    IN  ArrayFromRange(startIndex, endIndex - startIndex + 1)

\* The identifiers loadMoreItems() asks for.
NewItems ==
    LET startIndex == Cardinality(loadedItems) + 1
        endIndex == Min(Cardinality(loadedItems) + config.BATCH_SIZE, config.TOTAL_IMAGES)
    IN  ArrayFromRange(startIndex, endIndex - startIndex + 1)

\* handleWhatsAppClick that builds the remote URL from the card's position
\* among the loaded items instead of its data-item-id.
handleWhatsAppClick_WrongId(button) ==
    LET itemId == button.itemId
        displayName == OrElse(button.itemName, NAME_PREFIX \o itemId)
        netlifyImageUrl == NETLIFY_PREFIX \o NumberToChars(Cardinality(loadedItems)) \o JPG
        message == MSG_HEAD \o displayName \o MSG_IMAGE \o netlifyImageUrl
                     \o MSG_ITEM \o itemId \o MSG_TAIL
    IN  IF host.buyNowModal /\ host.modalItem /\ host.modalImage /\ host.modalWhatsappLink
        THEN [ item |-> displayName, imageSrc |-> button.dataSrc, imageAlt |-> displayName,
               href |-> WA_PREFIX \o encodeURIComponent(message), hidden |-> FALSE,
               bodyOverflow |-> "hidden" ]
        ELSE modal

\* handleWhatsAppClick(button): the new confirmation surface.
handleWhatsAppClick(button) ==
    LET itemId == button.itemId
        itemName == button.itemName
        localImageSrc == button.dataSrc
        netlifyImageUrl == NETLIFY_PREFIX \o itemId \o JPG
        displayName == OrElse(itemName, NAME_PREFIX \o itemId)
        message == MSG_HEAD \o displayName \o MSG_IMAGE \o netlifyImageUrl
                     \o MSG_ITEM \o itemId \o MSG_TAIL
        whatsappUrl == WA_PREFIX \o encodeURIComponent(message)
    IN  IF host.buyNowModal /\ host.modalItem /\ host.modalImage /\ host.modalWhatsappLink
        THEN [ item |-> displayName, imageSrc |-> localImageSrc, imageAlt |-> displayName,
               href |-> whatsappUrl, hidden |-> FALSE, bodyOverflow |-> "hidden" ]
        ELSE modal

(***************************************************************************)
(* Initial states: the controller after the field assignments of its       *)
(* constructor, before the constructor's call of init().                   *)
(***************************************************************************)
InitWith(configs, hosts) ==
    /\ config \in configs
    /\ host \in hosts
    /\ loadedItems = {}
    /\ isInitializing = FALSE
    /\ initPc = "idle"
    /\ initThrown = FALSE
    /\ state = "Idle"
    /\ initCalls = 0
    /\ listeners = [btn |-> 0, grid |-> 0]
    /\ grid = <<>>
    /\ loadingHidden \in BOOLEAN
    /\ viewMoreHidden \in BOOLEAN
    /\ btnDisabled = FALSE
    /\ btnLabel = HostButtonLabel
    /\ morePending = 0
    /\ lastCall = [op |-> "none", itemIds |-> <<>>, ran |-> FALSE]
    /\ modal = [ item |-> <<>>, imageSrc |-> "", imageAlt |-> <<>>, href |-> <<>>,
                 hidden |-> TRUE, bodyOverflow |-> "" ]

Init == InitWith(SmallConfigs, {FullHost})

(***************************************************************************)
(* init(): from its entry to its first suspension.  An exception in        *)
(* setupEventListeners() is caught at once; one in loadItemsBatch() makes  *)
(* the promise loadInitialItems() awaits reject.                           *)
(***************************************************************************)
\* init() without the test for the grid element.
init_NoGridTest ==
    /\ initCalls' = initCalls + 1
    /\ IF isInitializing
       THEN UNCHANGED << config, host, loadedItems, isInitializing, initPc, initThrown,
                         state, listeners, grid, loadingHidden, viewMoreHidden,
                         btnDisabled, btnLabel, morePending, lastCall, modal >>
       ELSE \E fault \in {"none", "setupEventListeners", "loadItemsBatch"} :
              IF fault = "setupEventListeners"
              THEN /\ grid' = showErrorFallback(grid)
                   /\ state' = "Error"
                   /\ isInitializing' = FALSE
                   /\ UNCHANGED << config, host, loadedItems, initPc, initThrown,
                                   listeners, loadingHidden, viewMoreHidden, btnDisabled,
                                   btnLabel, morePending, lastCall, modal >>
              ELSE /\ isInitializing' = TRUE
                   /\ state' = "Initializing"
                   /\ listeners' = [ btn |-> listeners.btn + (IF host.viewMoreBtn THEN 1 ELSE 0),
                                     grid |-> listeners.grid + 1 ]
                   /\ loadingHidden' = showLoading(TRUE)
                   /\ lastCall' = [op |-> "loadInitialItems", itemIds |-> InitialItems, ran |-> TRUE]
                   /\ IF fault = "loadItemsBatch"
                      THEN /\ initThrown' = TRUE
                           /\ UNCHANGED << loadedItems, grid >>
                      ELSE /\ initThrown' = FALSE
                           /\ loadedItems' = loadItemsBatch(InitialItems).loadedItems
                           /\ grid' = loadItemsBatch(InitialItems).grid
                   /\ initPc' = "loadInitialItems"
                   /\ UNCHANGED << config, host, viewMoreHidden, btnDisabled, btnLabel,
                                   morePending, modal >>

init ==
    /\ initCalls' = initCalls + 1
    /\ IF ~host.jewelleryGrid \/ isInitializing
       THEN UNCHANGED << config, host, loadedItems, isInitializing, initPc, initThrown,
                         state, listeners, grid, loadingHidden, viewMoreHidden,
                         btnDisabled, btnLabel, morePending, lastCall, modal >>
       ELSE \E fault \in {"none", "setupEventListeners", "loadItemsBatch"} :
              IF fault = "setupEventListeners"
              THEN /\ grid' = showErrorFallback(grid)
                   /\ state' = "Error"
                   /\ isInitializing' = FALSE
                   /\ UNCHANGED << config, host, loadedItems, initPc, initThrown,
                                   listeners, loadingHidden, viewMoreHidden, btnDisabled,
                                   btnLabel, morePending, lastCall, modal >>
              ELSE /\ isInitializing' = TRUE
                   /\ state' = "Initializing"
                   /\ listeners' = [ btn |-> listeners.btn + (IF host.viewMoreBtn THEN 1 ELSE 0),
                                     grid |-> listeners.grid + 1 ]
                   /\ loadingHidden' = showLoading(TRUE)
                   /\ lastCall' = [op |-> "loadInitialItems", itemIds |-> InitialItems, ran |-> TRUE]
                   /\ IF fault = "loadItemsBatch"
                      THEN /\ initThrown' = TRUE
                           /\ UNCHANGED << loadedItems, grid >>
                      ELSE /\ initThrown' = FALSE
                           /\ loadedItems' = loadItemsBatch(InitialItems).loadedItems
                           /\ grid' = loadItemsBatch(InitialItems).grid
                   /\ initPc' = "loadInitialItems"
                   /\ UNCHANGED << config, host, viewMoreHidden, btnDisabled, btnLabel,
                                   morePending, modal >>

\* The constructor's call of init().
Construct ==
    /\ initCalls = 0
    /\ init

\* loadInitialItems() resumes after its await.
LoadInitialResume ==
    /\ initPc = "loadInitialItems"
    /\ initPc' = "init"
    /\ IF initThrown
       THEN UNCHANGED << loadingHidden, viewMoreHidden, lastCall >>
       ELSE /\ loadingHidden' = showLoading(FALSE)
            /\ viewMoreHidden' = updateViewMoreButton
    /\ UNCHANGED << config, host, loadedItems, isInitializing, initThrown, state,
                    initCalls, listeners, grid, btnDisabled, btnLabel, morePending, lastCall, modal >>

\* init() resumes after its await: setupImageObservers(), catch, finally.
InitResume ==
    /\ initPc = "init"
    /\ initPc' = "idle"
    /\ initThrown' = FALSE
    /\ isInitializing' = FALSE
    /\ \E fault \in {"none", "setupImageObservers"} :
         IF initThrown \/ fault = "setupImageObservers"
         THEN /\ grid' = showErrorFallback(grid)
              /\ state' = "Error"
         ELSE /\ grid' = setupImageObservers(grid)
              /\ state' = "Ready"
    /\ UNCHANGED << config, host, loadedItems, initCalls, listeners, loadingHidden,
                    viewMoreHidden, btnDisabled, btnLabel, morePending, lastCall, modal >>

(***************************************************************************)
(* Events.  A click or an image event is a task of the event loop: it is   *)
(* delivered only when no continuation of an async function is waiting in *)
(* the microtask queue.                                                    *)
(***************************************************************************)
MicrotasksDone == initPc = "idle" /\ morePending = 0

(***************************************************************************)
(* loadMoreItems(), called by a click listener of the button.              *)
(***************************************************************************)
\* loadMoreItems without the guard on viewMoreBtn.disabled.
loadMoreItems_NoGuard ==
    /\ morePending < 3
    /\ btnDisabled' = TRUE
    /\ btnLabel' = LOADING_LABEL
    /\ lastCall' = [op |-> "loadMoreItems", itemIds |-> NewItems, ran |-> TRUE]
    /\ loadedItems' = loadItemsBatch(NewItems).loadedItems
    /\ grid' = loadItemsBatch(NewItems).grid
    /\ morePending' = morePending + 1
    /\ UNCHANGED << config, host, isInitializing, initPc, initThrown, state,
                    initCalls, listeners, loadingHidden, viewMoreHidden, modal >>

loadMoreItems ==
    IF btnDisabled
    THEN /\ lastCall' = [op |-> "loadMoreItems", itemIds |-> <<>>, ran |-> FALSE]
         /\ UNCHANGED << config, host, loadedItems, isInitializing, initPc, initThrown,
                         state, initCalls, listeners, grid, loadingHidden,
                         viewMoreHidden, btnDisabled, btnLabel, morePending, modal >>
    ELSE /\ btnDisabled' = TRUE
         /\ btnLabel' = LOADING_LABEL
         /\ lastCall' = [op |-> "loadMoreItems", itemIds |-> NewItems, ran |-> TRUE]
         /\ loadedItems' = loadItemsBatch(NewItems).loadedItems
         /\ grid' = loadItemsBatch(NewItems).grid
         /\ morePending' = morePending + 1
         /\ UNCHANGED << config, host, isInitializing, initPc, initThrown, state,
                         initCalls, listeners, loadingHidden, viewMoreHidden,
                         modal >>

LoadMoreClick ==
    /\ MicrotasksDone
    /\ listeners.btn > 0
    /\ loadMoreItems

\* loadMoreItems() resumes after its await.
LoadMoreResume ==
    /\ morePending > 0
    /\ morePending' = morePending - 1
    /\ btnDisabled' = FALSE
    /\ btnLabel' = VIEW_MORE_LABEL
    /\ viewMoreHidden' = updateViewMoreButton
    /\ UNCHANGED << config, host, loadedItems, isInitializing, initPc, initThrown,
                    state, initCalls, listeners, grid, loadingHidden,
                    lastCall, modal >>

(***************************************************************************)
(* The delegated click on a card's buy button.  The confirmation surface   *)
(* covers the page while it is shown and nothing in this file closes it,   *)
(* so the click comes while the surface is hidden.                         *)
(***************************************************************************)
BuyClick(i) ==
    /\ MicrotasksDone
    /\ modal.hidden
    /\ listeners.grid > 0
    /\ grid[i].kind = "card"
    /\ modal' = handleWhatsAppClick(grid[i])
    /\ UNCHANGED << config, host, loadedItems, isInitializing, initPc, initThrown,
                    state, initCalls, listeners, grid, loadingHidden, viewMoreHidden,
                    btnDisabled, btnLabel, morePending, lastCall >>

(***************************************************************************)
(* The load and error events of a card's image.  The images load           *)
(* independently of each other; the outcome of a load is delivered for the *)
(* first MaxObserved children of the grid, the other loads stay in flight. *)
(***************************************************************************)
ImgLoad(i) ==
    /\ MicrotasksDone
    /\ i <= MaxObserved
    /\ grid[i].kind = "card"
    /\ grid[i].load = "loading"
    /\ grid' = [grid EXCEPT ![i].load = "complete", ![i].opacity = 1]
    /\ UNCHANGED << config, host, loadedItems, isInitializing, initPc, initThrown,
                    state, initCalls, listeners, loadingHidden, viewMoreHidden,
                    btnDisabled, btnLabel, morePending, lastCall, modal >>

ImgError(i) ==
    /\ MicrotasksDone
    /\ i <= MaxObserved
    /\ grid[i].kind = "card"
    /\ grid[i].load = "loading"
    /\ LET itemId == grid[i].itemId IN
         IF Len(itemId) > 0
         THEN grid' = [grid EXCEPT ![i].src = getFallbackImage(ParseInt(itemId)),
                                   ![i].load = "loading",
                                   ![i].fallbacks = Min(@ + 1, 2)]
         ELSE grid' = [grid EXCEPT ![i].load = "broken"]
    /\ UNCHANGED << config, host, loadedItems, isInitializing, initPc, initThrown,
                    state, initCalls, listeners, loadingHidden, viewMoreHidden,
                    btnDisabled, btnLabel, morePending, lastCall, modal >>

Next ==
    \/ Construct
    \/ LoadInitialResume
    \/ InitResume
    \/ LoadMoreClick
    \/ LoadMoreResume
    \/ \E i \in DOMAIN grid : BuyClick(i)
    \/ \E i \in DOMAIN grid : ImgLoad(i)
    \/ \E i \in DOMAIN grid : ImgError(i)

Spec == Init /\ [][Next]_vars

(***************************************************************************)
(* The grid alone, without the buy action, for the small configurations    *)
(* and for the configuration the repository ships.                         *)
(***************************************************************************)
InitGrid == InitWith(SmallConfigs \cup {JEWELLERY_CONFIG}, {FullHost})

NextGrid ==
    \/ Construct
    \/ LoadInitialResume
    \/ InitResume
    \/ LoadMoreClick
    \/ LoadMoreResume
    \/ \E i \in DOMAIN grid : ImgLoad(i)
    \/ \E i \in DOMAIN grid : ImgError(i)

SpecGrid == InitGrid /\ [][NextGrid]_vars

(***************************************************************************)
(* The controller's methods called directly by other code of the page, at  *)
(* any moment after the constructor has returned, the suspension points   *)
(* of init() and loadMoreItems() included.                                 *)
(***************************************************************************)
\* The arguments of the direct calls of loadItemsBatch(): an identifier that
\* may be loaded already (1) and one beyond TOTAL_IMAGES and beyond the names
\* table (41), each listed twice.
DirectBatches == { <<1, 1>>, <<41, 41>> }

\* The configurations of the runs with direct calls.
ApiConfigs == {c \in SmallConfigs : c.TOTAL_IMAGES = 2 /\ c.INITIAL_LOAD = 1}

InitApi == InitWith(ApiConfigs, {FullHost})

CallLoadItemsBatch(itemIds) ==
    /\ initCalls >= 1
    /\ host.jewelleryGrid
    /\ lastCall' = [op |-> "loadItemsBatch", itemIds |-> itemIds, ran |-> TRUE]
    /\ loadedItems' = loadItemsBatch(itemIds).loadedItems
    /\ grid' = loadItemsBatch(itemIds).grid
    /\ UNCHANGED << config, host, isInitializing, initPc, initThrown, state,
                    initCalls, listeners, loadingHidden, viewMoreHidden, btnDisabled,
                    btnLabel, morePending, modal >>

CallLoadMoreItems ==
    /\ initCalls >= 1
    /\ host.viewMoreBtn
    /\ loadMoreItems

NextApi ==
    \/ Construct
    \/ LoadInitialResume
    \/ InitResume
    \/ LoadMoreClick
    \/ LoadMoreResume
    \/ \E i \in DOMAIN grid : BuyClick(i)
    \/ \E i \in DOMAIN grid : ImgLoad(i)
    \/ \E i \in DOMAIN grid : ImgError(i)
    \/ \E itemIds \in DirectBatches : CallLoadItemsBatch(itemIds)

SpecApi == InitApi /\ [][NextApi]_vars

(***************************************************************************)
(* The load-more operation alone, with the microtask queue always drained: *)
(* a continuation that is ready is eventually run.                         *)
(***************************************************************************)
NextMore ==
    \/ Construct
    \/ LoadInitialResume
    \/ InitResume
    \/ LoadMoreClick
    \/ LoadMoreResume
    \/ CallLoadMoreItems

SpecMore ==
    /\ Init
    /\ [][NextMore]_vars
    /\ WF_vars(LoadInitialResume)
    /\ WF_vars(InitResume)
    /\ WF_vars(LoadMoreResume)

(***************************************************************************)
(* init() called again by other code of the page, at any moment: while an  *)
(* initialization is suspended and after it has finished.  With several    *)
(* click listeners on the button a click calls loadMoreItems() once per    *)
(* listener; the calls after the first find the button disabled and        *)
(* return, and lastCall records the first.                                 *)
(***************************************************************************)
CallInit ==
    /\ initCalls >= 1
    /\ initCalls < MaxInitCalls
    /\ init

NextInit ==
    \/ Construct
    \/ CallInit
    \/ LoadInitialResume
    \/ InitResume
    \/ LoadMoreClick
    \/ LoadMoreResume
    \/ \E i \in DOMAIN grid : ImgLoad(i)
    \/ \E i \in DOMAIN grid : ImgError(i)

SpecInit == Init /\ [][NextInit]_vars

(***************************************************************************)
(* Host pages that lack some of the elements the code looks up.            *)
(***************************************************************************)
\* The names of the elements other than the grid.
OtherElements ==
    { "loadingIndicator", "viewMoreContainer", "viewMoreBtn", "buyNowModal",
      "modalItem", "modalImage", "modalWhatsappLink" }

\* A page with the grid and nothing else.
BareHost == [e \in DOMAIN FullHost |-> e = "jewelleryGrid"]

\* The full page, the page without the grid, the pages that lack one of the
\* other elements, and the page that lacks them all.
Hosts ==
    {FullHost, [FullHost EXCEPT !.jewelleryGrid = FALSE], BareHost}
        \cup {[FullHost EXCEPT ![e] = FALSE] : e \in OtherElements}

InitHost == InitWith(ApiConfigs, Hosts)

\* loadMoreItems() called directly on a controller that has its grid.
\* Without the button, reading this.viewMoreBtn.disabled throws a TypeError
\* and the promise the call returns is rejected.
CallLoadMore ==
    /\ initCalls >= 1
    /\ host.jewelleryGrid
    /\ IF host.viewMoreBtn
       THEN loadMoreItems
       ELSE /\ lastCall' = [op |-> "loadMoreItems: TypeError", itemIds |-> <<>>, ran |-> FALSE]
            /\ UNCHANGED << config, host, loadedItems, isInitializing, initPc, initThrown,
                            state, initCalls, listeners, grid, loadingHidden,
                            viewMoreHidden, btnDisabled, btnLabel, morePending, modal >>

NextHost ==
    \/ Construct
    \/ CallInit
    \/ LoadInitialResume
    \/ InitResume
    \/ LoadMoreClick
    \/ LoadMoreResume
    \/ CallLoadMore
    \/ \E i \in DOMAIN grid : BuyClick(i)

SpecHost == InitHost /\ [][NextHost]_vars

(***************************************************************************)
(* Load-more triggered again and again: a click that can be delivered is   *)
(* eventually delivered, and the continuations run as in SpecMore.         *)
(***************************************************************************)
SpecRepeat ==
    /\ InitGrid
    /\ [][NextMore]_vars
    /\ WF_vars(LoadInitialResume)
    /\ WF_vars(InitResume)
    /\ WF_vars(LoadMoreResume)
    /\ WF_vars(LoadMoreClick)

(***************************************************************************)
(* Every way into the batch-loading operation at once: init() called again *)
(* at any moment, load-more clicks, direct calls of loadItemsBatch(), and  *)
(* the image events in between.                                            *)
(***************************************************************************)
NextInterleaved ==
    \/ Construct
    \/ CallInit
    \/ LoadInitialResume
    \/ InitResume
    \/ LoadMoreClick
    \/ LoadMoreResume
    \/ \E itemIds \in DirectBatches : CallLoadItemsBatch(itemIds)
    \/ \E i \in DOMAIN grid : ImgLoad(i)
    \/ \E i \in DOMAIN grid : ImgError(i)

\* The configurations of these runs: an initial batch of two identifiers
\* where two exist, and load-more one at a time.
InterleavedConfigs ==
    {c \in SmallConfigs : c.INITIAL_LOAD = 2 /\ c.BATCH_SIZE = 1}

InitInterleaved == InitWith(InterleavedConfigs, {FullHost})

SpecInterleaved == InitInterleaved /\ [][NextInterleaved]_vars

(***************************************************************************)
(* Properties.                                                             *)
(***************************************************************************)
\* The item identifiers of the cards of a grid, in document order.
RECURSIVE CardIds(_)
CardIds(g) ==
    IF Len(g) = 0 THEN <<>>
    ELSE IF Head(g).kind = "card"
         THEN <<ParseInt(Head(g).itemId)>> \o CardIds(Tail(g))
         ELSE CardIds(Tail(g))

\* loadInitialItems() has returned normally and init() has not resumed yet.
LoadInitialCompleted == initPc = "init" /\ ~initThrown

\* C1: when load-initial has completed on a fresh controller, loadedItems is
\* exactly {1 .. min(INITIAL_LOAD, TOTAL_IMAGES)}, whatever the configuration
\* (INITIAL_LOAD may exceed TOTAL_IMAGES).
C1_LoadInitialExact ==
    (LoadInitialCompleted /\ initCalls = 1) =>
        loadedItems = 1..Min(config.INITIAL_LOAD, config.TOTAL_IMAGES)

C1_Witness ==
    /\ LoadInitialCompleted
    /\ initCalls = 1
    /\ config.INITIAL_LOAD > config.TOTAL_IMAGES
    /\ Cardinality(loadedItems) = config.TOTAL_IMAGES

\* C2: in every state reached through init() and load-more clicks,
\* loadedItems is a subset of {1 .. TOTAL_IMAGES}.
C2_LoadedWithinTotal == loadedItems \subseteq 1..config.TOTAL_IMAGES

\* A load-more that had fewer than BATCH_SIZE identifiers left has run.
C2_Witness ==
    /\ morePending = 1
    /\ loadedItems = 1..config.TOTAL_IMAGES
    /\ config.INITIAL_LOAD < config.TOTAL_IMAGES
    /\ config.BATCH_SIZE > config.TOTAL_IMAGES - config.INITIAL_LOAD

\* A step in which a call of loadMoreItems() passes its guard.
LoadMoreStarts == morePending' = morePending + 1

\* The sizes the shipped configuration goes through: 8, 16, 24, 32, 36, 36.
ShippedNextSize == (8 :> 16) @@ (16 :> 24) @@ (24 :> 32) @@ (32 :> 36) @@ (36 :> 36)

BatchLoadCompleted ==
    \/ LoadInitialCompleted
    \/ MicrotasksDone /\ loadedItems # {}

\* C4: whenever a batch operation (load-initial or load-more) has completed,
\* the load-more container is hidden iff loadedItems.size >= TOTAL_IMAGES.
C4_ViewMoreHiddenIffExhausted ==
    BatchLoadCompleted =>
        (viewMoreHidden <=> Cardinality(loadedItems) >= config.TOTAL_IMAGES)

\* A load-more has loaded the last identifiers and hidden the container.
C4_Witness ==
    /\ state = "Ready"
    /\ MicrotasksDone
    /\ config.INITIAL_LOAD < config.TOTAL_IMAGES
    /\ Cardinality(loadedItems) = config.TOTAL_IMAGES
    /\ viewMoreHidden

\* The elements of a sequence.
Range(seq) == {seq[i] : i \in DOMAIN seq}

\* The item identifier of a card.
IdOf(card) == ParseInt(card.itemId)

\* The positions of the cards in the grid.
Cards == {i \in DOMAIN grid : grid[i].kind = "card"}

\* The number of cards of the grid g for the identifier id.
CardCount(g, id) ==
    Cardinality({i \in DOMAIN g : g[i].kind = "card" /\ IdOf(g[i]) = id})

C6_LoadedMonotonic ==
    /\ [][loadedItems \subseteq loadedItems']_vars
    /\ [][ loadedItems' # loadedItems =>
             /\ lastCall'.ran
             /\ (loadedItems' \ loadedItems) \subseteq Range(lastCall'.itemIds) ]_vars

\* After the transition to Error, a direct batch call and a buy action,
\* the identifiers loaded before are still there.
C6_Witness ==
    /\ state = "Error"
    /\ ~modal.hidden
    /\ lastCall.op = "loadItemsBatch"
    /\ Cardinality(loadedItems) >= 2

\* The entry of the fallback list the specification names for id.
ExpectedFallback(id) == FALLBACK_IMAGES[((id - 1) % Len(FALLBACK_IMAGES)) + 1]

\* The path the specification names for id: base, prefix, id, extension.
ExpectedPrimary(id) == "images/" \o "jewel-" \o ToString(id) \o ".jpg"

\* The error handler was the last to assign the image's source.
ShowsFallback(card) == card.fallbacks > 0 /\ card.src # card.dataSrc

\* C7: the fallback location of id is FALLBACK_IMAGES[(id-1) mod length]
\* (0-based), so identifiers that differ by a multiple of the length share an
\* entry; the display location of an item is the primary path when
\* id <= TOTAL_IMAGES and that fallback entry when id > TOTAL_IMAGES.
C7_ImageLocations ==
    /\ \A i \in Cards :
         LET id == IdOf(grid[i]) IN
         /\ grid[i].dataSrc = IF id <= config.TOTAL_IMAGES
                              THEN ExpectedPrimary(id)
                              ELSE ExpectedFallback(id)
         /\ grid[i].src \in {"", grid[i].dataSrc, ExpectedFallback(id)}
         /\ ShowsFallback(grid[i]) => grid[i].src = ExpectedFallback(id)
    /\ \A i, j \in Cards :
         ( /\ (IdOf(grid[j]) - IdOf(grid[i])) % Len(FALLBACK_IMAGES) = 0
           /\ ShowsFallback(grid[i])
           /\ IdOf(grid[j]) > config.TOTAL_IMAGES )
         => grid[i].src = grid[j].dataSrc

\* Card 1 shows its fallback after a load failure, and it is the entry that
\* card 41, beyond TOTAL_IMAGES, displays.
C7_Witness ==
    \E i, j \in Cards :
        /\ IdOf(grid[i]) = 1
        /\ IdOf(grid[j]) = 41
        /\ ShowsFallback(grid[i])
        /\ grid[i].src = grid[j].dataSrc
        /\ grid[i].src = FALLBACK_IMAGES[1]

\* The text parameter of a confirmation link.
TextParam(href) == SubSeq(href, Len(WA_PREFIX) + 1, Len(href))

ITEM_TAG == <<"I","t","e","m"," ","#">>

REMOTE_PREFIX ==
    <<"h","t","t","p","s",":","/","/","s","i","s","t","e","r","-","s","p","a","r","k","l","e","s",".","n","e","t","l","i","f","y",".","a","p","p","/","i","m","a","g","e","s","/","j","e","w","e","l","-">>

\* C8: a buy action sets the confirmation link to the fixed messaging URL
\* whose decoded text parameter contains the item's display name, "Item #<id>"
\* and the remote image URL <host>/images/jewel-<id>.jpg, a function of the
\* id alone, whatever image the card displays.
C8_BuyLink ==
    ~modal.hidden =>
        LET text == PercentDecode(TextParam(modal.href)) IN
        /\ SubSeq(modal.href, 1, Len(WA_PREFIX)) = WA_PREFIX
        /\ \A k \in DOMAIN TextParam(modal.href) :
             TextParam(modal.href)[k] \in UNRESERVED \cup {"%"}
        /\ \E i \in Cards :
             /\ modal.imageSrc = grid[i].dataSrc
             /\ modal.item = grid[i].itemName
             /\ Contains(text, grid[i].itemName)
             /\ Contains(text, ITEM_TAG \o NumberToChars(IdOf(grid[i])))
             /\ Contains(text, REMOTE_PREFIX \o NumberToChars(IdOf(grid[i])) \o <<".","j","p","g">>)

\* The buy action of card 1 has run while the card displays its fallback.
C8_Witness ==
    /\ ~modal.hidden
    /\ Len(grid) >= 1
    /\ grid[1].kind = "card"
    /\ ShowsFallback(grid[1])
    /\ modal.imageSrc = grid[1].dataSrc
    /\ Contains(PercentDecode(TextParam(modal.href)), ITEM_TAG \o <<"1">>)

ITEM_LABEL == <<"I","t","e","m"," ">>

JEWELLERY_ITEM_LABEL == <<"J","e","w","e","l","l","e","r","y"," ","I","t","e","m"," ">>

\* C9 as stated: the name is the table entry at index id - 1, and "Item <id>"
\* when the table has no entry there.
C9_Original ==
    \A i \in Cards :
        LET id == IdOf(grid[i]) IN
        grid[i].itemName = IF id \in DOMAIN JEWELLERY_NAMES
                           THEN JEWELLERY_NAMES[id]
                           ELSE ITEM_LABEL \o NumberToChars(id)

\* C9, amended: the name is the table entry at index id - 1 (0-based), and
\* "Jewellery Item <id>" when the table has no entry there.
C9_NameOrLabel ==
    \A i \in Cards :
        LET id == IdOf(grid[i]) IN
        grid[i].itemName = IF id \in DOMAIN JEWELLERY_NAMES
                           THEN JEWELLERY_NAMES[id]
                           ELSE JEWELLERY_ITEM_LABEL \o NumberToChars(id)

\* A card beyond the 36 entries of the table, and one within.
C9_Witness ==
    \E i, j \in Cards :
        /\ IdOf(grid[i]) = 41
        /\ grid[i].itemName = JEWELLERY_ITEM_LABEL \o <<"4","1">>
        /\ IdOf(grid[j]) = 1
        /\ grid[j].itemName = JEWELLERY

\* C10: at most one load-more is in progress at any time; a call of
\* loadMoreItems() that arrives while one is suspended is ignored and changes
\* neither loadedItems nor the grid; the button is disabled and labelled
\* "Loading..." for the whole operation; and every load-more that starts
\* eventually restores the button to enabled with the label of the page.
C10_OneLoadMoreAtATime ==
    /\ [](morePending <= 1)
    /\ [](morePending > 0 => btnDisabled /\ btnLabel = LOADING_LABEL)
    /\ [][ (morePending > 0 /\ lastCall' # lastCall /\ lastCall'.op = "loadMoreItems")
             => /\ ~lastCall'.ran
                /\ loadedItems' = loadedItems
                /\ grid' = grid
                /\ morePending' = morePending ]_vars
    /\ (morePending > 0) ~> (morePending = 0 /\ ~btnDisabled /\ btnLabel = HostButtonLabel)

\* A call of loadMoreItems() has been ignored while a load-more is suspended.
C10_Witness ==
    /\ morePending = 1
    /\ btnDisabled
    /\ lastCall = [op |-> "loadMoreItems", itemIds |-> <<>>, ran |-> FALSE]

\* C11 as stated: over any sequence of init() calls, those made while an
\* initialization is in progress and those made after one has finished,
\* each click listener (the button's, the grid's) is registered at most once.
C11_Original == listeners.btn <= 1 /\ listeners.grid <= 1

\* A step in which the catch block of init() runs: at once when
\* setupEventListeners() throws, or when init() resumes after its await.
InitCatches == state' = "Error" /\ (initCalls' # initCalls \/ initPc = "init")

\* C12: when an exception is raised in the init() sequence (wiring the
\* listeners, the initial batch, activating the images) the controller ends
\* in Error with isInitializing cleared and the grid holding the "unable to
\* load" placeholder and no card; the rejection of the initial batch is in
\* flight only while the controller initializes, and the resumption of
\* init() that receives it ends in Error.
C12_ExceptionEndsInError ==
    /\ [][ InitCatches =>
             /\ ~isInitializing'
             /\ initPc' = "idle"
             /\ grid' = <<Placeholder>> ]_vars
    /\ [](initThrown => isInitializing /\ state = "Initializing")
    /\ [][ (initThrown /\ initPc = "init" /\ initPc' = "idle") => state' = "Error" ]_vars

\* init() has ended in Error after the initial batch had put cards in the
\* grid: the exception came from activating the images.
C12_Witness ==
    /\ state = "Error"
    /\ initPc = "idle"
    /\ ~isInitializing
    /\ loadedItems # {}
    /\ grid = <<Placeholder>>

\* C13 as stated: once the controller has entered Error no later event adds
\* a card, so the grid keeps showing only the placeholder.
C13_Original == state = "Error" => grid = <<Placeholder>>

FullSurface ==
    host.buyNowModal /\ host.modalItem /\ host.modalImage /\ host.modalWhatsappLink

\* With the grid present and other elements absent, init() that meets no
\* exception ends in Ready with the initial batch loaded, and a buy action
\* with an incomplete confirmation surface changes nothing.
HostDegradesGracefully ==
    host.jewelleryGrid =>
        /\ (state = "Ready" =>
              1..Min(config.INITIAL_LOAD, config.TOTAL_IMAGES) \subseteq loadedItems)
        /\ (~FullSurface => modal.hidden /\ modal.href = <<>> /\ modal.bodyOverflow = "")

\* C15 as stated: with the grid present and any subset of the other elements
\* absent, init() still reaches Ready with the initial batch loaded, the
\* load-more and buy operations complete without raising an error, and a buy
\* action with an incomplete confirmation surface changes nothing.
C15_Original ==
    /\ HostDegradesGracefully
    /\ host.jewelleryGrid => lastCall.op # "loadMoreItems: TypeError"

\* C16 as stated: a load failure swaps the image's source to the fallback
\* entry of its card's id, and this swap happens at most once per image:
\* after it no further failure makes the error handler assign the source
\* again, whatever load/error events and batch loads follow.
C16_Original == \A i \in Cards : grid[i].fallbacks <= 1

\* A step in which loadItemsBatch() runs, called by loadInitialItems(),
\* by loadMoreItems() or directly.
BatchStep == lastCall' # lastCall /\ lastCall'.ran

\* C17 as stated: a batch load starts loading only the images that are still
\* pending: an image that has loaded, or that has been switched to its
\* fallback, keeps its source and is not loaded again.
C17_Original ==
    [][ BatchStep =>
          \A i \in Cards :
              (grid[i].load = "complete" \/ ShowsFallback(grid[i]))
                  => (i \in DOMAIN grid' /\ grid'[i] = grid[i]) ]_vars

\* C18 as stated: once init() has finished after starting load-initial, in
\* Ready or in Error, the loading indicator is hidden, and it stays hidden
\* through the later load-more operations.
C18_Original ==
    (initPc = "idle" /\ state \in {"Ready", "Error"} /\ listeners.grid > 0)
        => loadingHidden

\* C19: in every state reached through init() and load-more triggers
\* loadedItems is the gap-free prefix {1 .. size}; so the range load-more
\* computes from the size holds no identifier that is loaded already, and
\* load-more repeated on a wired button eventually loads every identifier
\* in 1 .. TOTAL_IMAGES.
C19_GapFreePrefix ==
    /\ [](loadedItems = 1..Cardinality(loadedItems))
    /\ [][ LoadMoreStarts => Range(lastCall'.itemIds) \cap loadedItems = {} ]_vars
    /\ (listeners.btn > 0) ~> (loadedItems = 1..config.TOTAL_IMAGES)

\* The shipped configuration after its four load-mores: all 36 loaded.
C19_Witness ==
    /\ config = JEWELLERY_CONFIG
    /\ state = "Ready"
    /\ morePending = 0
    /\ lastCall = [op |-> "loadMoreItems", itemIds |-> <<33, 34, 35, 36>>, ran |-> TRUE]
    /\ loadedItems = 1..36

\* showErrorFallback() has never run: the grid holds cards only.  (The
\* placeholder, once set, is never removed: the grid is only appended to.)
NeverError == \A i \in DOMAIN grid : grid[i].kind = "card"

\* The position of the first occurrence of x in seq.
FirstIndex(seq, x) ==
    CHOOSE k \in DOMAIN seq : seq[k] = x /\ \A j \in 1..(k - 1) : seq[j] # x

====
